---- MODULE Spec2Model ----
(***************************************************************************)
(* A model of nengo/utils/ipython.py: the script exporter's post-          *)
(* processing (export_py), the HTML exporter's post-processing             *)
(* (export_html, export_images), the cell iterator (iter_cells) and the    *)
(* optional-package probes (check_ipy_version, has_ipynb_widgets).         *)
(*                                                                         *)
(* Python text is modelled by TLA+ strings, on which TLC evaluates Len,    *)
(* SubSeq and \o.  Text positions are Python's (0-based), -1 is "not       *)
(* found" as returned by str.find.                                         *)
(***************************************************************************)
EXTENDS Integers, Sequences, FiniteSets, TLC

VARIABLES
    \* export_py
    py_pc,          \* position in export_py: "while", "plt", "write", "done"
    py_exported,    \* the text returned by exporter.from_notebook_node (line 165)
    body,           \* the local variable body of export_py
    stripped,       \* history: the value of body when the while loop was left
    py_dest,        \* the file at dest_path: <<>> unwritten, <<text>> written
    \* iter_cells
    nb,             \* the notebook document
    nb_passed,      \* history: the document as it was passed to iter_cells
    gen,            \* the generator objects made by the calls of iter_cells
    \* the module's import block and the probes
    installed,      \* the importable packages of the environment
    version_info,   \* IPython.version_info of the installed IPython
    mod_pc,         \* "import" before, "imported" after lines 11-43 ran
    globals,        \* the names bound at module level by lines 11-43
    check_result,   \* what the last check_ipy_version call did
    widgets_result, \* what the last has_ipynb_widgets call did
    \* export_html and export_images
    html_pc,        \* position in export_html: "render", "css", "images",
                    \* "write", "done", or "raised" (left by IndexError)
    output,         \* the text returned by exporter.from_notebook_node (line 190)
    resources,      \* resources['outputs'] in iteration order: <<[id, data]>>
    header,         \* the local variable header of export_html
    html_body,      \* the local variable body of export_html
    html_out,       \* the local variable html_out, and the value returned
    image_args,     \* <<image_dir, image_rel_dir>> of the call, <<>> for None
    my_uuid,        \* the prefix drawn at line 232, "" before
    html_dest,      \* the file at dest_path: <<>> unwritten, <<text>> written
    image_files,    \* the files written so far: path -> payload
    calls           \* history: the export_images calls made, in order

pyVars == <<py_pc, py_exported, body, stripped, py_dest>>
cellVars == <<nb, nb_passed, gen>>
probeVars ==
    <<installed, version_info, mod_pc, globals, check_result, widgets_result>>

htmlVars ==
    <<html_pc, output, resources, header, html_body, html_out, image_args,
      my_uuid, html_dest, image_files, calls>>

vars == <<pyVars, cellVars, probeVars, htmlVars>>

(***************************************************************************)
(* Bounds of the model.                                                    *)
(***************************************************************************)
\* the exporter's script is a concatenation of at most MaxPieces fragments
MaxPieces == 4
\* the stripping loop is followed while body is at most this long
MaxBodyLen == 60
\* a worksheet, or a version-4 document, has at most MaxCells cells
MaxCells == 2
\* the rendered page's head holds at most MaxHeaderLines lines
MaxHeaderLines == 2
\* export_images is called at most MaxCalls times on one image directory
MaxCalls == 2

(***************************************************************************)
(* Python's str operations.                                                *)
(***************************************************************************)
\* s[a:b] for 0 <= a, 0 <= b
Slice(s, a, b) == SubSeq(s, a + 1, b)

\* s[a:] for 0 <= a
SliceFrom(s, a) == SubSeq(s, a + 1, Len(s))

\* s.startswith(sub, i)
MatchAt(s, sub, i) ==
    /\ i + Len(sub) <= Len(s)
    /\ SubSeq(s, i + 1, i + Len(sub)) = sub

\* the least element of a non-empty set of integers
Min(S) == CHOOSE i \in S : \A j \in S : i <= j

\* s.find(sub, start): the lowest index >= start where sub occurs, else -1
Find(s, sub, start) ==
    LET hits == {i \in start..(Len(s) - Len(sub)) : MatchAt(s, sub, i)}
    IN  IF hits = {} THEN -1 ELSE Min(hits)

\* sub in s
Contains(s, sub) == Find(s, sub, 0) # -1

\* s.endswith(sub)
EndsWith(s, sub) == Len(sub) <= Len(s) /\ MatchAt(s, sub, Len(s) - Len(sub))

\* s.startswith(sub)
StartsWith(s, sub) == MatchAt(s, sub, 0)

\* s.split(sep, 1): <<s>> when sep does not occur in s
Split1(s, sep) ==
    LET i == Find(s, sep, 0)
    IN  IF i = -1 THEN <<s>>
        ELSE <<Slice(s, 0, i), SliceFrom(s, i + Len(sep))>>

\* s.split(sep), sep not empty
RECURSIVE Split(_, _)
Split(s, sep) ==
    LET i == Find(s, sep, 0)
    IN  IF i = -1 THEN <<s>>
        ELSE <<Slice(s, 0, i)>> \o Split(SliceFrom(s, i + Len(sep)), sep)

\* sep.join(parts)
RECURSIVE Join(_, _)
Join(sep, parts) ==
    IF parts = <<>> THEN ""
    ELSE IF Len(parts) = 1 THEN parts[1]
    ELSE parts[1] \o sep \o Join(sep, Tail(parts))

\* s.replace("", new): new before every character and at the end
RECURSIVE Interleave(_, _)
Interleave(s, new) ==
    IF s = "" THEN new
    ELSE new \o SubSeq(s, 1, 1) \o Interleave(SliceFrom(s, 1), new)

\* s.replace(old, new): the occurrences of old found from left to right,
\* each search resuming after the occurrence before it
RECURSIVE Replace(_, _, _)
Replace(s, old, new) ==
    IF old = "" THEN Interleave(s, new)
    ELSE LET i == Find(s, old, 0)
         IN  IF i = -1 THEN s
             ELSE Slice(s, 0, i) \o new
                      \o Replace(SliceFrom(s, i + Len(old)), old, new)

\* os.path.join(a, b) on a POSIX system
PathJoin(a, b) ==
    IF StartsWith(b, "/") THEN b
    ELSE IF a = "" \/ EndsWith(a, "/") THEN a \o b
    ELSE a \o "/" \o b

\* the texts made of at most n fragments of P
RECURSIVE Texts(_, _)
Texts(P, n) ==
    IF n = 0 THEN {""}
    ELSE LET T == Texts(P, n - 1) IN T \cup {t \o p : t \in T, p \in P}

(***************************************************************************)
(* The parts of the state a specification does not exercise.               *)
(***************************************************************************)
NoGenerator ==
    [pc |-> "none", cell_type |-> "", alias |-> FALSE, cells |-> <<>>,
     idx |-> 0, yielded |-> <<>>]

EmptyNotebook ==
    [nbformat |-> 4, has_worksheets |-> FALSE, worksheets |-> <<>>,
     has_cells |-> TRUE, cells |-> <<>>]

CellsIdle ==
    /\ nb = EmptyNotebook
    /\ nb_passed = EmptyNotebook
    /\ gen = [g \in 1..2 |-> NoGenerator]

ProbeIdle ==
    /\ installed = {}
    /\ version_info = <<>>
    /\ mod_pc = "import"
    /\ globals = {}
    /\ check_result = "unset"
    /\ widgets_result = "unset"

NoFiles == [path \in {} |-> ""]

HtmlIdle ==
    /\ html_pc = "idle"
    /\ output = ""
    /\ resources = <<>>
    /\ header = ""
    /\ html_body = ""
    /\ html_out = ""
    /\ image_args = <<>>
    /\ my_uuid = ""
    /\ html_dest = <<>>
    /\ image_files = NoFiles
    /\ calls = <<>>

PyIdle ==
    /\ py_pc = "idle"
    /\ py_exported = ""
    /\ body = ""
    /\ stripped = ""
    /\ py_dest = <<>>

(***************************************************************************)
(* export_py (lines 159-179).                                              *)
(***************************************************************************)
GET_IPYTHON == "get_ipython()"
NEWLINE == "\n"
PLT == "plt"
PLT_SHOW == "\nplt.show()\n"

\* fragments of exporter output: the call, its two halves (which a removal
\* can join), a newline, a plotting reference and other code
PyPieces == {GET_IPYTHON, "get_ip", "ython()", "ython()\n", NEWLINE, PLT, "x"}

\* one iteration of the loop body, lines 169-171
StripOnce(b) ==
    LET ind0 == Find(b, GET_IPYTHON, 0)
        ind1 == Find(b, NEWLINE, ind0)
    IN  Slice(b, 0, ind0) \o SliceFrom(b, ind1 + 1)

PyStart ==
    /\ py_pc = "while"
    /\ body = py_exported
    /\ stripped = ""
    /\ py_dest = <<>>

InitPy ==
    /\ py_exported \in Texts(PyPieces, MaxPieces)
    /\ PyStart
    /\ CellsIdle
    /\ ProbeIdle
    /\ HtmlIdle

\* ExportPyStrip with "if" for "while": one removal, then on to line 173
ExportPyStripIf ==
    /\ py_pc = "while"
    /\ Contains(body, GET_IPYTHON)
    /\ body' = StripOnce(body)
    /\ py_pc' = "plt"
    /\ stripped' = body'
    /\ UNCHANGED <<py_exported, py_dest>>
    /\ UNCHANGED <<cellVars, probeVars, htmlVars>>

\* line 168 true, lines 169-171
ExportPyStrip ==
    /\ py_pc = "while"
    /\ Contains(body, GET_IPYTHON)
    /\ Len(body) <= MaxBodyLen
    /\ body' = StripOnce(body)
    /\ UNCHANGED <<py_pc, py_exported, stripped, py_dest>>
    /\ UNCHANGED <<cellVars, probeVars, htmlVars>>

\* line 168 false
ExportPyStripExit ==
    /\ py_pc = "while"
    /\ ~Contains(body, GET_IPYTHON)
    /\ py_pc' = "plt"
    /\ stripped' = body
    /\ UNCHANGED <<py_exported, body, py_dest>>
    /\ UNCHANGED <<cellVars, probeVars, htmlVars>>

\* ExportPyPlt with the test made on the exporter's text
ExportPyPltOnExported ==
    /\ py_pc = "plt"
    /\ body' = IF Contains(py_exported, PLT) THEN body \o PLT_SHOW ELSE body
    /\ py_pc' = "write"
    /\ UNCHANGED <<py_exported, stripped, py_dest>>
    /\ UNCHANGED <<cellVars, probeVars, htmlVars>>

\* lines 173-174
ExportPyPlt ==
    /\ py_pc = "plt"
    /\ body' = IF Contains(body, PLT) THEN body \o PLT_SHOW ELSE body
    /\ py_pc' = "write"
    /\ UNCHANGED <<py_exported, stripped, py_dest>>
    /\ UNCHANGED <<cellVars, probeVars, htmlVars>>

\* lines 176-179, dest_path given
ExportPyWrite ==
    /\ py_pc = "write"
    /\ py_dest' = <<body>>
    /\ py_pc' = "done"
    /\ UNCHANGED <<py_exported, body, stripped>>
    /\ UNCHANGED <<cellVars, probeVars, htmlVars>>

\* lines 176 and 179, dest_path is None
ExportPyReturn ==
    /\ py_pc = "write"
    /\ py_pc' = "done"
    /\ UNCHANGED <<py_exported, body, stripped, py_dest>>
    /\ UNCHANGED <<cellVars, probeVars, htmlVars>>

NextPy ==
    \/ ExportPyStrip
    \/ ExportPyStripExit
    \/ ExportPyPlt
    \/ ExportPyWrite
    \/ ExportPyReturn

SpecPy == InitPy /\ [][NextPy]_vars

(***************************************************************************)
(* Claims about export_py, checked under SpecPy.                           *)
(***************************************************************************)
\* C1: whenever export_py returns, the returned text (and the text written
\* to dest_path) holds no occurrence of "get_ipython()", also none that a
\* removal created by joining the text before it to the text after it.
C1_NoGetIpythonReturned ==
    py_pc = "done" =>
        /\ ~Contains(body, GET_IPYTHON)
        /\ \A i \in 1..Len(py_dest) : ~Contains(py_dest[i], GET_IPYTHON)

\* export_py has returned for a text whose first removal joined two
\* fragments into a new occurrence of the call
C1_Witness ==
    /\ py_pc = "done"
    /\ Contains(py_exported, GET_IPYTHON)
    /\ LET f == Find(StripOnce(py_exported), GET_IPYTHON, 0)
       IN  f # -1 /\ f < Find(py_exported, GET_IPYTHON, 0)

\* the exporter's text with every whole line that contains sub deleted, from
\* the start of the line through its newline
RECURSIVE DeleteLinesWith(_, _)
DeleteLinesWith(s, sub) ==
    IF s = "" THEN ""
    ELSE LET nl == Find(s, NEWLINE, 0)
             line == IF nl = -1 THEN s ELSE Slice(s, 0, nl + 1)
             rest == IF nl = -1 THEN "" ELSE SliceFrom(s, nl + 1)
         IN  (IF Contains(line, sub) THEN "" ELSE line)
                 \o DeleteLinesWith(rest, sub)

\* C2: the text before the optional plot-display suffix is the exporter's
\* text with each whole line containing "get_ipython()" deleted, every
\* other line kept unchanged and in order.
C2_WholeLinesRemoved ==
    py_pc = "done" => stripped = DeleteLinesWith(py_exported, GET_IPYTHON)

\* C3: export_py appends exactly one "\nplt.show()\n" when the stripped text
\* references "plt", however often, and appends nothing when the stripped
\* text does not, whatever the exporter's text held.
C3_OnePltShow ==
    py_pc \in {"write", "done"} =>
        body = IF Contains(stripped, PLT) THEN stripped \o PLT_SHOW
               ELSE stripped

\* export_py has returned a text with two plotting references left after a
\* line with the call was removed
C3_Witness ==
    /\ py_pc = "done"
    /\ Contains(py_exported, GET_IPYTHON)
    /\ Find(stripped, PLT, Find(stripped, PLT, 0) + 1) > 0
    /\ body = stripped \o PLT_SHOW

\* C10: every iteration of the stripping loop strictly reduces the text
\* (so the loop ends), also when the last line with the call has no
\* newline after it.
C10_StripShrinks ==
    [][(py_pc = "while" /\ py_pc' = "while") => Len(body') < Len(body)]_vars

(***************************************************************************)
(* iter_cells (lines 244-254).  A call makes a generator object; the body  *)
(* runs from line 245 at the first next() and from the yield at each       *)
(* later one.  In a version-3 document the cells are in nb.worksheets and  *)
(* there is no nb.cells; in a version-4 document it is the other way       *)
(* round.  Reading an attribute the document lacks raises AttributeError.  *)
(***************************************************************************)
CellTypes == {"code", "markdown"}
WorksheetCounts == {0, 1, 2}

TypeSeqs == UNION {[1..m -> CellTypes] : m \in 0..MaxCells}

MkCells(ts, base) ==
    [i \in 1..Len(ts) |-> [cell_type |-> ts[i], source |-> base + i]]

V3Notebooks ==
    UNION {{[nbformat |-> v, has_worksheets |-> TRUE,
             worksheets |-> [j \in 1..k |-> [cells |-> MkCells(f[j], 10 * j)]],
             has_cells |-> FALSE, cells |-> <<>>] :
                v \in {2, 3}, f \in [1..k -> TypeSeqs]} : k \in WorksheetCounts}

V4Notebooks ==
    {[nbformat |-> 4, has_worksheets |-> FALSE, worksheets |-> <<>>,
      has_cells |-> TRUE, cells |-> MkCells(ts, 0)] : ts \in TypeSeqs}

\* Matches with the filter's default in place of the argument
MatchesDefault(cell, cell_type) == cell.cell_type = "code"

\* line 253
Matches(cell, cell_type) == cell.cell_type = cell_type

\* lines 247-248
RECURSIVE ExtendAll(_, _)
ExtendAll(cells, worksheets) ==
    IF worksheets = <<>> THEN cells
    ELSE ExtendAll(cells \o Head(worksheets).cells, Tail(worksheets))

\* FlattenWorksheets with "cells = ws.cells" for "cells.extend(ws.cells)"
FlattenAssign(worksheets) ==
    IF worksheets = <<>> THEN <<>> ELSE worksheets[Len(worksheets)].cells

\* lines 246-248
FlattenWorksheets(worksheets) == ExtendAll(<<>>, worksheets)

\* lines 245-250: the first next() of generator r
GenStart(r) ==
    IF nb.nbformat <= 3
    THEN IF nb.has_worksheets
         THEN [r EXCEPT !.pc = "running", !.alias = FALSE,
                        !.cells = FlattenWorksheets(nb.worksheets)]
         ELSE [r EXCEPT !.pc = "raised"]
    ELSE IF nb.has_cells
         THEN [r EXCEPT !.pc = "running", !.alias = TRUE]
         ELSE [r EXCEPT !.pc = "raised"]

\* the list the local variable cells of generator r refers to: its own list
\* (line 246) or the document's (line 250)
GenCells(r) == IF r.alias THEN nb.cells ELSE r.cells

\* lines 252-253: the position of the next cell from position i on that
\* passes the filter, 0 when the list is exhausted
RECURSIVE NextMatch(_, _, _)
NextMatch(cells, i, cell_type) ==
    IF i > Len(cells) THEN 0
    ELSE IF Matches(cells[i], cell_type) THEN i
    ELSE NextMatch(cells, i + 1, cell_type)

\* lines 252-254: run generator r to its next yield or to its end
GenResume(r) ==
    LET cells == GenCells(r)
        i == NextMatch(cells, r.idx + 1, r.cell_type)
    IN  IF i = 0
        THEN [r EXCEPT !.pc = "done", !.idx = Len(cells)]
        ELSE [r EXCEPT !.idx = i, !.yielded = Append(@, cells[i])]

InitCells ==
    /\ nb \in V3Notebooks \cup V4Notebooks
    /\ nb_passed = nb
    /\ gen = [g \in 1..2 |-> NoGenerator]
    /\ PyIdle
    /\ ProbeIdle
    /\ HtmlIdle

\* iter_cells(nb, cell_type): line 244, nothing of the body runs yet
IterCellsCall(g, cell_type) ==
    /\ gen[g].pc = "none"
    /\ gen' = [gen EXCEPT ![g] = [@ EXCEPT !.pc = "created",
                                           !.cell_type = cell_type]]
    /\ UNCHANGED <<nb, nb_passed, pyVars, probeVars, htmlVars>>

\* iter_cells(nb): line 244 with the default of cell_type
IterCellsCallDefault(g) == IterCellsCall(g, "code")

\* next() on generator g
IterCellsNext(g) ==
    /\ gen[g].pc \in {"created", "running"}
    /\ LET r == IF gen[g].pc = "created" THEN GenStart(gen[g]) ELSE gen[g]
       IN  gen' = [gen EXCEPT ![g] = IF r.pc = "raised" THEN r
                                     ELSE GenResume(r)]
    /\ UNCHANGED <<nb, nb_passed, pyVars, probeVars, htmlVars>>

NextCells ==
    \/ \E g \in 1..2, cell_type \in CellTypes : IterCellsCall(g, cell_type)
    \/ \E g \in 1..2 : IterCellsCallDefault(g)
    \/ \E g \in 1..2 : IterCellsNext(g)

SpecCells == InitCells /\ [][NextCells]_vars

(***************************************************************************)
(* Claims about iter_cells, checked under SpecCells.                       *)
(***************************************************************************)
IsPrefix(s, t) == Len(s) <= Len(t) /\ s = SubSeq(t, 1, Len(s))

\* the cells of type t among cells, in order
OfType(cells, t) ==
    LET Keep(c) == c.cell_type = t IN SelectSeq(cells, Keep)

\* the concatenation of the worksheets' cell lists, in worksheet order
RECURSIVE Concatenation(_)
Concatenation(worksheets) ==
    IF worksheets = <<>> THEN <<>>
    ELSE Head(worksheets).cells \o Concatenation(Tail(worksheets))

\* what generator g has yielded so far starts the sequence want, and is all
\* of it when g is exhausted
YieldsExactly(g, want) ==
    /\ gen[g].pc # "raised"
    /\ IsPrefix(gen[g].yielded, want)
    /\ gen[g].pc = "done" => gen[g].yielded = want

\* C6: on a document with nbformat <= 3 iter_cells yields exactly the cells
\* of the filter's type from the concatenation of all worksheets' cell
\* lists, in worksheet order and cell order, each once, and leaves the
\* document and its worksheets as they were.
C6_V3YieldsWorksheetCells ==
    nb_passed.nbformat <= 3 =>
        /\ nb = nb_passed
        /\ \A g \in 1..2 :
              gen[g].pc # "none" =>
                  YieldsExactly(g, OfType(Concatenation(nb_passed.worksheets),
                                          gen[g].cell_type))

\* a generator is exhausted after yielding a cell of each of two worksheets
C6_Witness ==
    /\ nb_passed.nbformat <= 3
    /\ Len(nb_passed.worksheets) = 2
    /\ \E g \in 1..2 :
          /\ gen[g].pc = "done"
          /\ Len(gen[g].yielded) >= 2
          /\ gen[g].yielded[1].source < 20
          /\ gen[g].yielded[Len(gen[g].yielded)].source > 20
          /\ Len(gen[g].yielded) < Len(Concatenation(nb_passed.worksheets))

\* C7: on a document with nbformat >= 4 iter_cells yields exactly the
\* document's top-level cells of the filter's type, in document order,
\* without reading nb.worksheets; two calls on the same document each yield
\* that whole sequence from its start, however their next() calls interleave.
C7_V4YieldsTopLevelCells ==
    nb_passed.nbformat >= 4 =>
        \A g \in 1..2 :
            gen[g].pc # "none" =>
                YieldsExactly(g, OfType(nb_passed.cells, gen[g].cell_type))

\* one generator is exhausted after its one cell while the other, with
\* another filter, is suspended after its first cell
C7_Witness ==
    /\ nb_passed.nbformat >= 4
    /\ \E g, h \in 1..2 :
          /\ gen[g].pc = "done"
          /\ gen[g].cell_type = "code"
          /\ Len(gen[g].yielded) = 1
          /\ gen[h].pc = "running"
          /\ gen[h].cell_type = "markdown"
          /\ Len(gen[h].yielded) = 1

(***************************************************************************)
(* The module's import block (lines 11-43) and the probes (lines 46-74).   *)
(* A package is importable when it is in installed.  The subpackages of    *)
(* IPython <= 3 that need third-party packages of their own                *)
(* (IPython.nbconvert, IPython.nbformat, IPython.html) are importable      *)
(* items of their own; IPython.config, IPython.display and IPython.utils   *)
(* come with IPython.                                                      *)
(***************************************************************************)
Legacy == {"IPython.nbconvert", "IPython.nbformat", "IPython.html"}
Packages ==
    {"IPython", "traitlets", "nbconvert", "nbformat", "ipywidgets"}
        \cup Legacy

Versions == {<<2, 4>>, <<3, 2>>, <<4, 0>>, <<5, 1>>}
MinVersions == {<<3>>, <<4, 0>>, <<5, 1, 0>>}

\* Python's a >= b on tuples of integers
RECURSIVE TupleGE(_, _)
TupleGE(a, b) ==
    IF b = <<>> THEN TRUE
    ELSE IF a = <<>> THEN FALSE
    ELSE IF Head(a) # Head(b) THEN Head(a) > Head(b)
    ELSE TupleGE(Tail(a), Tail(b))

\* lines 12-39: the names bound before the block ends or an import fails
ImportedNames ==
    IF "IPython" \notin installed THEN {}
    ELSE
      LET first == {"IPython", "get_ipython", "HTML"}
          old == version_info[1] <= 3
          exporters ==
              IF old THEN "IPython.nbconvert" \in installed
              ELSE "nbconvert" \in installed
          config == IF old THEN TRUE ELSE "traitlets" \in installed
          reader ==
              IF version_info[1] <= 3 THEN "IPython.nbformat" \in installed
              ELSE "nbformat" \in installed
      IN  IF ~config THEN first
          ELSE IF ~exporters THEN first \cup {"Config"}
          ELSE IF ~reader
               THEN first \cup {"Config", "HTMLExporter", "PythonExporter"}
          ELSE first \cup {"Config", "HTMLExporter", "PythonExporter",
                           IF version_info[1] <= 2 THEN "current"
                           ELSE "nbformat",
                           "read_nb"}

InitProbe ==
    /\ installed \in SUBSET Packages
    /\ "IPython" \notin installed => installed \cap Legacy = {}
    /\ version_info \in
          (IF "IPython" \in installed THEN Versions ELSE {<<>>})
    /\ mod_pc = "import"
    /\ globals = {}
    /\ check_result = "unset"
    /\ widgets_result = "unset"
    /\ PyIdle
    /\ CellsIdle
    /\ HtmlIdle

\* lines 11-43: the try block, and line 41 when it left by ImportError
ModuleImport ==
    /\ mod_pc = "import"
    /\ mod_pc' = "imported"
    /\ globals' = ImportedNames \cup {"get_ipython"}
    /\ UNCHANGED <<installed, version_info, check_result, widgets_result>>
    /\ UNCHANGED <<pyVars, cellVars, htmlVars>>

\* lines 46-51
CheckIpyVersion(min_version) ==
    /\ mod_pc = "imported"
    /\ check_result' =
          IF "IPython" \notin installed THEN "False"
          ELSE IF TupleGE(version_info, min_version) THEN "True"
          ELSE "False"
    /\ UNCHANGED <<installed, version_info, mod_pc, globals, widgets_result>>
    /\ UNCHANGED <<pyVars, cellVars, htmlVars>>

\* lines 62-74: line 63 reads the module-level name IPython; NameError is
\* no ImportError, so line 71 does not catch it
HasIpynbWidgets ==
    /\ mod_pc = "imported"
    /\ widgets_result' =
          IF "IPython" \notin globals THEN "NameError"
          ELSE IF version_info[1] <= 3
               THEN IF "IPython.html" \in installed THEN "True" ELSE "False"
          ELSE IF {"ipywidgets", "traitlets"} \subseteq installed THEN "True"
          ELSE "False"
    /\ UNCHANGED <<installed, version_info, mod_pc, globals, check_result>>
    /\ UNCHANGED <<pyVars, cellVars, htmlVars>>

NextProbe ==
    \/ ModuleImport
    \/ \E min_version \in MinVersions : CheckIpyVersion(min_version)
    \/ HasIpynbWidgets

SpecProbe == InitProbe /\ [][NextProbe]_vars

(***************************************************************************)
(* Claims about the probes, checked under SpecProbe.                       *)
(***************************************************************************)
\* C5: check_ipy_version and has_ipynb_widgets return a boolean and never
\* raise, whichever packages are installed or absent; with IPython itself
\* absent (the import block fell through to its ImportError handler) each
\* returns False.
C5_ProbesNeverRaise ==
    /\ check_result \in {"unset", "True", "False"}
    /\ widgets_result \in {"unset", "True", "False"}
    /\ "IPython" \notin installed =>
          /\ check_result \in {"unset", "False"}
          /\ widgets_result \in {"unset", "False"}

(***************************************************************************)
(* export_html (lines 182-228) and export_images (lines 231-241).          *)
(***************************************************************************)
HEAD_OPEN == "<head>"
HEAD_CLOSE == "</head>"
BODY_OPEN == "<body>"
BODY_CLOSE == "</body>"

\* lines of a rendered page's head: a style tag followed by the rule line
\* 197 removes, a rule line 198 rewrites, and rules lines 210-212 drop
CssLines ==
    {"<style>\nbody {\n  overflow: visible;\n  padding: 8px;\n}\n",
     "code,pre{color:red}\n",
     "pre{margin:0}\n",
     ".navbar{top:0}\n"}

ImageIds == {"fig.png", "bigfig.png"}

PageBodies == {"<img src=\"bigfig.png\"><img src=\"fig.png\">", "<p>x</p>"}

\* what the HTML exporter may return as output: a page in which each of the
\* four markers is present or not
HtmlOutputs ==
    {"<html>" \o m1 \o h \o m2 \o m3 \o b \o m4 \o "</html>" :
        m1 \in {"", HEAD_OPEN}, m2 \in {"", HEAD_CLOSE},
        m3 \in {"", BODY_OPEN}, m4 \in {"", BODY_CLOSE},
        h \in Texts(CssLines, MaxHeaderLines), b \in PageBodies}

\* resources['outputs'] as a dict iterates: every order of every set of
\* identifiers, the payload of identifier id being version \o id
OutputsDicts(version) ==
    LET Injective(f) == \A i, j \in DOMAIN f : f[i] = f[j] => i = j
        orders == UNION {{f \in [1..n -> ImageIds] : Injective(f)} :
                            n \in 0..Cardinality(ImageIds)}
    IN  {[k \in DOMAIN f |-> [id |-> f[k], data |-> version \o f[k]]] :
            f \in orders}

Uuids ==
    {"0f8fad5bd9cb469fa16570867728950e",
     "7c9e6679742540de944be07fc1f90ae7",
     "e4eaaaf2d1424b919f7c4a8b5f0e2d63"}

ImageDirs == {"_build/img"}
ImageRelDirs == {"img"}
Optional(S) == {<<>>} \cup {<<x>> : x \in S}

\* Fragment with str.partition in place of split(...)[1]: "" when the
\* opening marker is missing
FragmentLenient(text, opening, closing) ==
    LET parts == Split1(text, opening)
    IN  IF Len(parts) < 2 THEN <<"">>
        ELSE <<Split1(parts[2], closing)[1]>>

\* lines 191 and 192: the fragment between two markers; <<>> when
\* split(opening, 1)[1] raises IndexError
Fragment(text, opening, closing) ==
    LET parts == Split1(text, opening)
    IN  IF Len(parts) < 2 THEN <<>>
        ELSE <<Split1(parts[2], closing)[1]>>

\* lines 195-198
PatchCss(h) ==
    Replace(
        Replace(
            Replace(h, "<style", "<style scoped=\"scoped\""),
            "body {\n  overflow: visible;\n  padding: 8px;\n}\n", ""),
        "code,pre{", "code{")

\* lines 201-206
bad_anywhere ==
    {"navbar", "body{", "alert{", "uneditable-input{", "collapse{",
     "h1{", "h2{", "h3{", "h4{", "h5{", "h6{"}

\* line 208
bad_beginning == {"pre{", "p{margin"}

\* lines 210-213
FilterCss(h) ==
    LET Keep(x) == /\ ~\E b \in bad_beginning : StartsWith(x, b)
                   /\ ~\E b \in bad_anywhere : Contains(x, b)
    IN  Join(NEWLINE, SelectSeq(Split(h, NEWLINE), Keep))

\* lines 216-220
Assemble(h, b) ==
    Join(NEWLINE, <<"<div class=\"ipynotebook\">", h, b, "</div>">>)

\* lines 239-240
WriteFile(files, path, data) ==
    [p \in DOMAIN files \cup {path} |-> IF p = path THEN data ELSE files[p]]

\* Fname without the prefix
FnameBare(uuid, id) == id

\* line 235
Fname(uuid, id) == uuid \o id

\* lines 234-241: the loop over resources['outputs'], from html and files
RECURSIVE ExportImagesLoop(_, _, _, _, _, _)
ExportImagesLoop(outs, uuid, image_dir, image_rel_dir, html, files) ==
    IF outs = <<>> THEN [html_out |-> html, files |-> files]
    ELSE LET fname == Fname(uuid, Head(outs).id)
             new_path == PathJoin(image_dir, fname)
             new_rel_path == PathJoin(image_rel_dir, fname)
         IN  ExportImagesLoop(Tail(outs), uuid, image_dir, image_rel_dir,
                              Replace(html, Head(outs).id, new_rel_path),
                              WriteFile(files, new_path, Head(outs).data))

InitHtml ==
    /\ html_pc = "render"
    /\ output \in HtmlOutputs
    /\ resources \in OutputsDicts("v1:")
    /\ header = ""
    /\ html_body = ""
    /\ html_out = ""
    /\ image_args = <<>>
    /\ my_uuid = ""
    /\ html_dest = <<>>
    /\ image_files = NoFiles
    /\ calls = <<>>
    /\ PyIdle
    /\ CellsIdle
    /\ ProbeIdle

\* lines 189-192
ExportHtmlSplit ==
    /\ html_pc = "render"
    /\ LET h == Fragment(output, HEAD_OPEN, HEAD_CLOSE)
           b == Fragment(output, BODY_OPEN, BODY_CLOSE)
       IN  IF h = <<>> \/ b = <<>>
           THEN /\ html_pc' = "raised"
                /\ UNCHANGED <<header, html_body>>
           ELSE /\ html_pc' = "css"
                /\ header' = h[1]
                /\ html_body' = b[1]
    /\ UNCHANGED <<output, resources, html_out, image_args, my_uuid,
                   html_dest, image_files, calls>>
    /\ UNCHANGED <<pyVars, cellVars, probeVars>>

\* lines 195-220
ExportHtmlCss ==
    /\ html_pc = "css"
    /\ header' = FilterCss(PatchCss(header))
    /\ html_out' = Assemble(header', html_body)
    /\ html_pc' = "images"
    /\ UNCHANGED <<output, resources, html_body, image_args, my_uuid,
                   html_dest, image_files, calls>>
    /\ UNCHANGED <<pyVars, cellVars, probeVars>>

\* lines 222-223 with both arguments given, and lines 231-241
ExportHtmlImages(image_dir, image_rel_dir, uuid) ==
    /\ html_pc = "images"
    /\ LET r == ExportImagesLoop(resources, uuid, image_dir, image_rel_dir,
                                 html_out, image_files)
       IN  /\ html_out' = r.html_out
           /\ image_files' = r.files
    /\ image_args' = <<<<image_dir>>, <<image_rel_dir>>>>
    /\ my_uuid' = uuid
    /\ calls' = Append(calls, [my_uuid |-> uuid, image_dir |-> image_dir,
                               outputs |-> resources])
    /\ html_pc' = "write"
    /\ UNCHANGED <<output, resources, header, html_body, html_dest>>
    /\ UNCHANGED <<pyVars, cellVars, probeVars>>

\* line 222 with image_dir or image_rel_dir None
ExportHtmlNoImages(image_dir, image_rel_dir) ==
    /\ html_pc = "images"
    /\ image_dir = <<>> \/ image_rel_dir = <<>>
    /\ image_args' = <<image_dir, image_rel_dir>>
    /\ html_pc' = "write"
    /\ UNCHANGED <<output, resources, header, html_body, html_out, my_uuid,
                   html_dest, image_files, calls>>
    /\ UNCHANGED <<pyVars, cellVars, probeVars>>

\* lines 225-228, dest_path given
ExportHtmlWrite ==
    /\ html_pc = "write"
    /\ html_dest' = <<html_out>>
    /\ html_pc' = "done"
    /\ UNCHANGED <<output, resources, header, html_body, html_out,
                   image_args, my_uuid, image_files, calls>>
    /\ UNCHANGED <<pyVars, cellVars, probeVars>>

\* lines 225 and 228, dest_path is None
ExportHtmlReturn ==
    /\ html_pc = "write"
    /\ html_pc' = "done"
    /\ UNCHANGED <<output, resources, header, html_body, html_out,
                   image_args, my_uuid, html_dest, image_files, calls>>
    /\ UNCHANGED <<pyVars, cellVars, probeVars>>

NextHtml ==
    \/ ExportHtmlSplit
    \/ ExportHtmlCss
    \/ \E image_dir \in ImageDirs, image_rel_dir \in ImageRelDirs,
          uuid \in Uuids :
            ExportHtmlImages(image_dir, image_rel_dir, uuid)
    \/ \E image_dir \in Optional(ImageDirs),
          image_rel_dir \in Optional(ImageRelDirs) :
            ExportHtmlNoImages(image_dir, image_rel_dir)
    \/ ExportHtmlWrite
    \/ ExportHtmlReturn

SpecHtml == InitHtml /\ [][NextHtml]_vars

(***************************************************************************)
(* export_images called on its own, repeatedly, on one image directory.    *)
(***************************************************************************)
HtmlTexts == {"", "<img src=\"fig.png\"><img src=\"bigfig.png\">"}
PayloadVersions == {"v1:", "v2:"}

InitImages ==
    /\ HtmlIdle
    /\ PyIdle
    /\ CellsIdle
    /\ ProbeIdle

\* lines 231-241
ExportImagesCall(outs, image_dir, image_rel_dir, html, uuid) ==
    /\ html_pc = "idle"
    /\ Len(calls) < MaxCalls
    /\ LET r == ExportImagesLoop(outs, uuid, image_dir, image_rel_dir,
                                 html, image_files)
       IN  /\ html_out' = r.html_out
           /\ image_files' = r.files
    /\ resources' = outs
    /\ image_args' = <<<<image_dir>>, <<image_rel_dir>>>>
    /\ my_uuid' = uuid
    /\ calls' = Append(calls, [my_uuid |-> uuid, image_dir |-> image_dir,
                               outputs |-> outs])
    /\ UNCHANGED <<html_pc, output, header, html_body, html_dest>>
    /\ UNCHANGED <<pyVars, cellVars, probeVars>>

NextImages ==
    \E version \in PayloadVersions, image_dir \in ImageDirs,
       image_rel_dir \in ImageRelDirs, html \in HtmlTexts, uuid \in Uuids :
        \E outs \in OutputsDicts(version) :
            ExportImagesCall(outs, image_dir, image_rel_dir, html, uuid)

SpecImages == InitImages /\ [][NextImages]_vars

(***************************************************************************)
(* Claims about export_html, checked under SpecHtml.                       *)
(***************************************************************************)
Markers == {HEAD_OPEN, HEAD_CLOSE, BODY_OPEN, BODY_CLOSE}
Returned == {"css", "images", "write", "done"}

\* C8 as stated: a rendered output lacking any of the four markers makes
\* export_html raise instead of returning HTML, with neither the
\* destination file nor an image file written.
C8_AnyMissingMarkerRaises ==
    (\E m \in Markers : ~Contains(output, m)) =>
        /\ html_pc \notin Returned
        /\ html_dest = <<>>
        /\ image_files = NoFiles

\* C8 as amended: a rendered output lacking an opening marker ("<head>" or
\* "<body>") makes export_html raise (IndexError) instead of returning HTML,
\* with neither the destination file nor an image file written, and
\* export_html raises for no other rendered output; a missing closing
\* marker alone does not raise: the fragment then runs to the end of the
\* rendered text.
C8_MissingOpeningMarkerRaises ==
    LET open_missing ==
            ~Contains(output, HEAD_OPEN) \/ ~Contains(output, BODY_OPEN)
    IN  /\ open_missing =>
              /\ html_pc \in {"render", "raised"}
              /\ html_dest = <<>>
              /\ image_files = NoFiles
        /\ html_pc = "raised" => open_missing
        /\ (html_pc = "css" /\ ~Contains(output, BODY_CLOSE)) =>
              EndsWith(output, html_body)

\* export_html raised on a page with "<head>" but no "<body>"
C8_Witness ==
    /\ html_pc = "raised"
    /\ Contains(output, HEAD_OPEN)
    /\ Contains(output, HEAD_CLOSE)
    /\ ~Contains(output, BODY_OPEN)

\* the text with every reference to a resource rewritten: scanning from the
\* left, the longest identifier found at a position is replaced by that
\* resource's new relative path, and nothing else is changed
RECURSIVE Relocated(_, _, _, _)
Relocated(s, outs, rel, uuid) ==
    LET At(i) == {k \in 1..Len(outs) :
                     outs[k].id # "" /\ MatchAt(s, outs[k].id, i)}
        found == {i \in 0..(Len(s) - 1) : At(i) # {}}
    IN  IF found = {} THEN s
        ELSE LET i == Min(found)
                 k == CHOOSE k \in At(i) :
                          \A j \in At(i) : Len(outs[j].id) <= Len(outs[k].id)
             IN  Slice(s, 0, i) \o PathJoin(rel, uuid \o outs[k].id)
                     \o Relocated(SliceFrom(s, i + Len(outs[k].id)),
                                  outs, rel, uuid)

\* C4: HTML export with an image directory and relative prefix supplied
\* writes every resource of resources['outputs'] to the image directory and
\* returns the HTML in which each occurrence of an original identifier is
\* replaced by exactly that resource's new relative path, for every
\* mapping and iteration order, also with identifiers that are substrings
\* of one another; no later replacement alters a path already rewritten.
C4_EveryReferenceRelocated ==
    (html_pc = "done" /\ Len(image_args) = 2
        /\ image_args[1] # <<>> /\ image_args[2] # <<>>) =>
        /\ \A k \in 1..Len(resources) :
              LET path == PathJoin(image_args[1][1],
                                   my_uuid \o resources[k].id)
              IN  /\ path \in DOMAIN image_files
                  /\ image_files[path] = resources[k].data
        /\ html_out = Relocated(Assemble(header, html_body), resources,
                                image_args[2][1], my_uuid)

(***************************************************************************)
(* Claims about export_images, checked under SpecImages.                   *)
(***************************************************************************)
PrefixesDiffer ==
    \A i, j \in 1..Len(calls) : i # j => calls[i].my_uuid # calls[j].my_uuid

RECURSIVE TotalOutputs(_)
TotalOutputs(cs) ==
    IF cs = <<>> THEN 0 ELSE Len(Head(cs).outputs) + TotalOutputs(Tail(cs))

\* C9: when every export_images call drew a prefix different from every
\* earlier call's, then after any sequence of calls into one image
\* directory every resource of every call is the file
\* <that call's prefix><identifier> holding that resource's payload, and
\* there is one file per resource: none shared by two identifiers of a
\* call, none overwritten by a later call using the same identifiers.
C9_EveryResourceKeepsItsFile ==
    PrefixesDiffer =>
        /\ \A i \in 1..Len(calls) :
              \A k \in 1..Len(calls[i].outputs) :
                  LET path == PathJoin(calls[i].image_dir,
                                       calls[i].my_uuid
                                           \o calls[i].outputs[k].id)
                  IN  /\ path \in DOMAIN image_files
                      /\ image_files[path] = calls[i].outputs[k].data
        /\ Cardinality(DOMAIN image_files) = TotalOutputs(calls)

\* two calls with different prefixes wrote the same two identifiers with
\* different payloads
C9_Witness ==
    /\ Len(calls) = 2
    /\ calls[1].my_uuid # calls[2].my_uuid
    /\ Len(calls[1].outputs) = 2
    /\ Len(calls[2].outputs) = 2
    /\ calls[1].outputs[1].data # calls[2].outputs[1].data
    /\ calls[1].outputs[1].data # calls[2].outputs[2].data

====
